---- MODULE Spec2Model ----
(***************************************************************************)
(* Model of the participation ledger pipeline of the American Healthcare   *)
(* class dashboard: the cell classifier and the full extraction of         *)
(* clean_data.py, the weekly update of update_week_cleaned.py and the      *)
(* score of dashboard.py; the header search and the date extraction of the *)
(* two scripts; two update runs against one ledger file.                   *)
(*                                                                         *)
(* Text is a sequence of one-character strings.  The two check marks are   *)
(* written "U+2713" and "U+2714", each standing for one character.         *)
(* Scores are kept in tenths of a point (1000 is 100.0).                   *)
(***************************************************************************)
EXTENDS Integers, Sequences, FiniteSets, TLC

VARIABLES
    cell,        \* the raw cell handed to the classifier
    classified,  \* what count_hashes / attendance_status returned for it
    student_df,  \* the ledger slice handed to calculate_score
    weeks_total, \* the weeks_total argument of calculate_score
    score,       \* the value calculate_score returned, in tenths
    ledger,      \* American_Healthcare_Class_Cleaned.xlsx: NoFile or its rows
    run,         \* the last run against the ledger: its outcome, the batch it extracted, the
                 \* number of ledger rows the batch superseded, the size of the table it read
    df_raw,          \* the sheet read with header=None, handed to the header search
    header_row_idx,  \* what the header search returned for it
    col_header,      \* the header text of the week column
    labelled,        \* the date extracted from it and the week label built from it
    proc             \* the update runs in flight: where each one is, what it read

headerVars == <<df_raw, header_row_idx>>

dateVars == <<col_header, labelled>>

raceVars == <<proc>>

vars ==
    <<cell, classified, student_df, weeks_total, score, ledger, run,
      headerVars, dateVars, raceVars>>

(***************************************************************************)
(* Text primitives (Python str methods used by the scripts).               *)
(***************************************************************************)
Lower == <<"a","b","c","d","e","f","g","h","i","j","k","l","m",
           "n","o","p","q","r","s","t","u","v","w","x","y","z">>

UpperCase == <<"A","B","C","D","E","F","G","H","I","J","K","L","M",
               "N","O","P","Q","R","S","T","U","V","W","X","Y","Z">>

Whitespace == {" ", "\t", "\n"}

\* str.upper() on one character
UpperChar(c) ==
    IF \E i \in 1..Len(Lower) : Lower[i] = c
    THEN UpperCase[CHOOSE i \in 1..Len(Lower) : Lower[i] = c]
    ELSE c

\* str.lower() on one character
LowerChar(c) ==
    IF \E i \in 1..Len(UpperCase) : UpperCase[i] = c
    THEN Lower[CHOOSE i \in 1..Len(UpperCase) : UpperCase[i] = c]
    ELSE c

Upper(s) == [i \in 1..Len(s) |-> UpperChar(s[i])]

LowerText(s) == [i \in 1..Len(s) |-> LowerChar(s[i])]

\* str.strip(): drop leading and trailing whitespace
Strip(s) ==
    LET keep == {i \in 1..Len(s) : s[i] \notin Whitespace}
    IN  IF keep = {} THEN <<>>
        ELSE LET lo == CHOOSE i \in keep : \A j \in keep : i <= j
                 hi == CHOOSE i \in keep : \A j \in keep : j <= i
             IN  SubSeq(s, lo, hi)

\* sub in s
Contains(s, sub) ==
    \E i \in 0..(Len(s) - Len(sub)) : SubSeq(s, i + 1, i + Len(sub)) = sub

\* c in s, for one character
HasChar(s, c) == \E i \in 1..Len(s) : s[i] = c

\* s.count(c), for one character
CountChar(s, c) == Cardinality({i \in 1..Len(s) : s[i] = c})

(***************************************************************************)
(* Raw cells.  A cell read from the sheet is missing (NaN), a string, or a *)
(* number; text holds what str(value) gives for it.                        *)
(***************************************************************************)
NaN == [kind |-> "nan", text |-> <<"n","a","n">>]

Str(t) == [kind |-> "str", text |-> t]

Num(t) == [kind |-> "num", text |-> t]

\* pd.isna(value)
IsNa(value) == value.kind = "nan"

\* str(value): what clean_data.py hands to its classifier
StrOf(value) == Str(value.text)

EXCUSED == <<"E","X","C","U","S","E","D">>

PRESENT == <<"P","R","E","S","E","N","T">>

ABSENT == <<"A","B","S","E","N","T">>

\* count_hashes returning 0 for an excused cell
count_hashes_excused_zero(value) ==
    IF IsNa(value) \/ HasChar(value.text, "$")
    THEN [raised |-> FALSE, n |-> 0]
    ELSE [raised |-> FALSE, n |-> CountChar(value.text, "#")]

count_hashes(value) ==
    IF IsNa(value) THEN [raised |-> FALSE, n |-> 0]
    ELSE [raised |-> FALSE, n |-> CountChar(value.text, "#")]

\* attendance_status with '%' tested before the present markers (app.py's order)
attendance_status_absent_first(value) ==
    IF IsNa(value) THEN "Absent"
    ELSE LET s == value.text
             s_upper == Upper(Strip(s))
         IN  IF HasChar(s, "$") \/ s_upper = <<"E">> \/ Contains(s_upper, EXCUSED)
             THEN "Excused"
             ELSE IF HasChar(s, "%") \/ s_upper \in {<<"A">>, <<"X">>}
                     \/ Contains(s_upper, ABSENT)
             THEN "Absent"
             ELSE IF (\E sym \in {"*", "U+2713", "U+2714"} : HasChar(s, sym))
                     \/ HasChar(s, "#") \/ s_upper = <<"P">>
                     \/ Contains(s_upper, PRESENT)
             THEN "Present"
             ELSE "Absent"

\* attendance_status whose default for an unknown marker is Present
attendance_status_default_present(value) ==
    IF IsNa(value) THEN "Absent"
    ELSE LET s == value.text
             s_upper == Upper(Strip(s))
         IN  IF HasChar(s, "$") \/ s_upper = <<"E">> \/ Contains(s_upper, EXCUSED)
             THEN "Excused"
             ELSE IF (\E sym \in {"*", "U+2713", "U+2714"} : HasChar(s, sym))
                     \/ HasChar(s, "#") \/ s_upper = <<"P">>
                     \/ Contains(s_upper, PRESENT)
             THEN "Present"
             ELSE IF HasChar(s, "%") \/ s_upper \in {<<"A">>, <<"X">>}
                     \/ Contains(s_upper, ABSENT)
             THEN "Absent"
             ELSE "Present"

attendance_status(value) ==
    IF IsNa(value) THEN "Absent"
    ELSE LET s == value.text
             s_upper == Upper(Strip(s))
         IN  IF HasChar(s, "$") \/ s_upper = <<"E">> \/ Contains(s_upper, EXCUSED)
             THEN "Excused"
             ELSE IF (\E sym \in {"*", "U+2713", "U+2714"} : HasChar(s, sym))
                     \/ HasChar(s, "#") \/ s_upper = <<"P">>
                     \/ Contains(s_upper, PRESENT)
             THEN "Present"
             ELSE IF HasChar(s, "%") \/ s_upper \in {<<"A">>, <<"X">>}
                     \/ Contains(s_upper, ABSENT)
             THEN "Absent"
             ELSE "Absent"

\* update_week_cleaned.main, lines 165-172: the raw value is classified
ClassifyRaw(value) ==
    [Participation |-> count_hashes(value).n,
     Attendance    |-> attendance_status(value),
     raised        |-> count_hashes(value).raised]

\* clean_data.py, lines 86-88: str(value) is classified
ClassifyStr(value) == ClassifyRaw(StrOf(value))

(***************************************************************************)
(* Values the idle parts of the state hold.                                *)
(***************************************************************************)
NotRun == [path |-> "none"]

\* weeks_total before calculate_score is called
NotCalled == [called |-> FALSE]

NoFile == [exists |-> FALSE, columns |-> <<>>, rows |-> <<>>]

\* a ledger file that is there and that pd.read_excel cannot read (not a workbook,
\* no read permission)
Unreadable == [exists |-> TRUE, readable |-> FALSE, columns |-> <<>>, rows |-> <<>>]

NoRun ==
    [op |-> "none", outcome |-> "none", path |-> "none", batch |-> <<>>,
     payload |-> <<>>, n_superseded |-> 0, n_students |-> 0, n_weeks |-> 0,
     raw_found |-> FALSE, columns |-> <<>>, week |-> 0, names |-> <<>>]

IdleCell == cell = NaN /\ classified = NotRun

NoneArg == [given |-> FALSE, n |-> 0]

IdleScore == student_df = <<>> /\ weeks_total = NotCalled /\ score = 0

IdleLedger == ledger = NoFile /\ run = NoRun

IdleHeader == df_raw = <<>> /\ header_row_idx = NotRun

IdleDate == col_header = <<>> /\ labelled = NotRun

IdleRace == proc = <<>>

(***************************************************************************)
(* The classifier on its own: every cell of Cells through both paths.      *)
(***************************************************************************)
MaxAffix == 1

MarkChars == {"$", "#", "*", "%", " ", "U+2713", "U+2714"}

Affixes == UNION {[1..k -> MarkChars] : k \in 0..MaxAffix}

Cores ==
    { <<>>, <<"e">>, <<"E">>, <<"p">>, <<"P">>, <<"a">>, <<"A">>, <<"x">>, <<"X">>,
      <<"z">>, <<"#","#">>, <<"n","a","n">>, <<"l","a","t","e">>,
      <<"e","x","c","u","s","e","d">>, <<"P","r","e","s","e","n","t">>,
      <<"A","B","S","E","N","T">> }

Cells ==
    {NaN, Num(<<"5">>), Num(<<"0">>)}
        \cup {Str(pre \o core \o suf) : pre \in Affixes, core \in Cores, suf \in Affixes}

CellUpdatePath ==
    /\ classified' = [path |-> "update", text |-> cell.text] @@ ClassifyRaw(cell)
    /\ UNCHANGED <<cell, student_df, weeks_total, score, ledger, run, headerVars, dateVars, raceVars>>

CellCleanPath ==
    /\ classified' = [path |-> "clean", text |-> StrOf(cell).text] @@ ClassifyStr(cell)
    /\ UNCHANGED <<cell, student_df, weeks_total, score, ledger, run, headerVars, dateVars, raceVars>>

InitCell ==
    /\ cell \in Cells /\ classified = NotRun /\ IdleScore /\ IdleLedger
    /\ IdleHeader /\ IdleDate /\ IdleRace

NextCell == CellUpdatePath \/ CellCleanPath

SpecCell == InitCell /\ [][NextCell]_vars

(***************************************************************************)
(* The rule table of the classifier, as the specification states it.       *)
(***************************************************************************)
Rules ==
    << [status |-> "Excused", chars |-> {"$"},
        equals |-> {<<"E">>}, word |-> EXCUSED],
       [status |-> "Present", chars |-> {"*", "U+2713", "U+2714", "#"},
        equals |-> {<<"P">>}, word |-> PRESENT],
       [status |-> "Absent", chars |-> {"%"},
        equals |-> {<<"A">>, <<"X">>}, word |-> ABSENT] >>

RuleMatches(r, t) ==
    \/ \E i \in 1..Len(t) : t[i] \in r.chars
    \/ Upper(Strip(t)) \in r.equals
    \/ Contains(Upper(t), r.word)

FirstMatchStatus(t) ==
    IF \E k \in 1..Len(Rules) : RuleMatches(Rules[k], t)
    THEN Rules[CHOOSE k \in 1..Len(Rules) :
                  /\ RuleMatches(Rules[k], t)
                  /\ \A j \in 1..(k - 1) : ~RuleMatches(Rules[j], t)].status
    ELSE "Absent"

RECURSIVE HashTokens(_)
HashTokens(t) ==
    IF t = <<>> THEN 0
    ELSE (IF Head(t) = "#" THEN 1 ELSE 0) + HashTokens(Tail(t))

Classified == classified.path # "none"

\* the cell reached the classifier as text (a missing cell has none in the update path)
ClassifiedText == Classified /\ ~(classified.path = "update" /\ IsNa(cell))

\* C5: the status is that of the first matching rule in the order Excused, Present,
\* Absent, default Absent; a cell with '$' is Excused, and a cell with a present
\* marker and '%' and no excused marker is Present.
C5_ClassifierPrecedence ==
    ClassifiedText =>
        LET t == classified.text
        IN  /\ classified.Attendance = FirstMatchStatus(t)
            /\ HasChar(t, "$") => classified.Attendance = "Excused"
            /\ ( /\ RuleMatches(Rules[2], t)
                 /\ HasChar(t, "%")
                 /\ ~RuleMatches(Rules[1], t) ) => classified.Attendance = "Present"

C5_Witness ==
    /\ ClassifiedText
    /\ HasChar(classified.text, "*")
    /\ HasChar(classified.text, "%")
    /\ ~RuleMatches(Rules[1], classified.text)
    /\ classified.Attendance = "Present"

\* C6: in the update path the participation count is the number of '#' characters
\* of the cell text whatever the status; a cell with an excused marker and n >= 1
\* '#' is Excused with count n.
C6_ExcusedKeepsParticipation ==
    (Classified /\ classified.path = "update") =>
        LET n == IF IsNa(cell) THEN 0 ELSE HashTokens(cell.text)
        IN  /\ classified.Participation = n
            /\ (~IsNa(cell) /\ RuleMatches(Rules[1], cell.text) /\ n >= 1) =>
                   (classified.Attendance = "Excused" /\ classified.Participation = n)

C6_Witness ==
    /\ Classified
    /\ classified.path = "update"
    /\ cell = Str(<<"$", "#">>)
    /\ classified.Attendance = "Excused"
    /\ classified.Participation = 1

\* a text that holds no recognised marker
NoMarker(t) == \A k \in 1..Len(Rules) : ~RuleMatches(Rules[k], t)

\* C7: an empty cell, a missing cell and a cell without a recognised marker give
\* count 0 and status Absent, without an error, in the update path and in the
\* full extraction.
C7_DefaultAbsence ==
    (Classified /\ (IsNa(cell) \/ NoMarker(cell.text))) =>
        /\ ~classified.raised
        /\ classified.Participation = 0
        /\ classified.Attendance = "Absent"

C7_Witness ==
    /\ Classified
    /\ classified.path = "clean"
    /\ IsNa(cell)
    /\ classified.Participation = 0
    /\ classified.Attendance = "Absent"

(***************************************************************************)
(* dashboard.calculate_score.                                              *)
(***************************************************************************)
Min(a, b) == IF a <= b THEN a ELSE b

Max(a, b) == IF a >= b THEN a ELSE b

RECURSIVE SumOf(_, _)
SumOf(f, S) ==
    IF S = {} THEN 0
    ELSE LET x == CHOOSE y \in S : TRUE IN f[x] + SumOf(f, S \ {x})

\* round(n / d, 0) as Python rounds: to nearest, a tie to the even neighbour
RoundHalfEven(n, d) ==
    LET q == n \div d
        r == n % d
    IN  IF 2 * r < d THEN q
        ELSE IF 2 * r > d THEN q + 1
        ELSE IF q % 2 = 0 THEN q ELSE q + 1

\* int(student_df["Week"].nunique())
NUnique(df) == Cardinality({df[i].Week : i \in 1..Len(df)})

\* (student_df["Participation"] > 0).sum()
SpokeRows(df) == Cardinality({i \in 1..Len(df) : df[i].Participation > 0})

\* student_df["Participation"].sum()
TotalSpeaks(df) == SumOf([i \in 1..Len(df) |-> df[i].Participation], 1..Len(df))

\* calculate_score without the cap of 10 on the bonus
calculate_score_no_bonus_cap(df, wt) ==
    IF Len(df) = 0 THEN 0
    ELSE LET w == IF wt.given THEN wt.n ELSE NUnique(df)
         IN  IF w = 0 THEN 0
             ELSE LET spoke_weeks == SpokeRows(df)
                      total_speaks == TotalSpeaks(df)
                      bonus == Max(0, total_speaks - spoke_weeks) * 2
                  IN  RoundHalfEven(Min(1000 * spoke_weeks + 10 * bonus * w, 1000 * w), w)

\* calculate_score paying the bonus on every speech, not on the extra ones
calculate_score_bonus_on_total(df, wt) ==
    IF Len(df) = 0 THEN 0
    ELSE LET w == IF wt.given THEN wt.n ELSE NUnique(df)
         IN  IF w = 0 THEN 0
             ELSE LET spoke_weeks == SpokeRows(df)
                      total_speaks == TotalSpeaks(df)
                      bonus == Min(total_speaks * 2, 10)
                  IN  RoundHalfEven(Min(1000 * spoke_weeks + 10 * bonus * w, 1000 * w), w)

\* the score in tenths: base and bonus are brought to the denominator weeks_total,
\* 10 * (spoke_weeks / w * 100 + bonus) = (1000 * spoke_weeks + 10 * bonus * w) / w
calculate_score(df, wt) ==
    IF Len(df) = 0 THEN 0
    ELSE LET w == IF wt.given THEN wt.n ELSE NUnique(df)
         IN  IF w = 0 THEN 0
             ELSE LET spoke_weeks == SpokeRows(df)
                      total_speaks == TotalSpeaks(df)
                      bonus == Min(Max(0, total_speaks - spoke_weeks) * 2, 10)
                  IN  RoundHalfEven(Min(1000 * spoke_weeks + 10 * bonus * w, 1000 * w), w)

(***************************************************************************)
(* The score on its own: every slice of Slices with every weeks_total.     *)
(***************************************************************************)
MaxSlice == 6

MaxPart == 3

MaxWeeks == 6

PartSeqs == UNION {[1..k -> 0..MaxPart] : k \in 0..MaxSlice}

\* one row per week, as the by_student_week frame of the Overview holds them
MakeSlice(parts) ==
    [i \in 1..Len(parts) |-> [Week |-> i, Participation |-> parts[i]]]

Slices == {MakeSlice(parts) : parts \in PartSeqs}

WeeksArgs == {NoneArg} \cup {[given |-> TRUE, n |-> k] : k \in 0..MaxWeeks}

Score(wt) ==
    /\ weeks_total = NotCalled
    /\ weeks_total' = wt
    /\ score' = calculate_score(student_df, wt)
    /\ UNCHANGED <<cell, classified, student_df, ledger, run, headerVars, dateVars, raceVars>>

InitScore ==
    /\ student_df \in Slices
    /\ weeks_total = NotCalled
    /\ score = 0
    /\ IdleCell
    /\ IdleLedger
    /\ IdleHeader /\ IdleDate /\ IdleRace

NextScore == \E wt \in WeeksArgs : Score(wt)

SpecScore == InitScore /\ [][NextScore]_vars

Scored == weeks_total # NotCalled

\* the weeksTotal the score was computed with
WeeksUsed == IF weeks_total.given THEN weeks_total.n ELSE NUnique(student_df)

\* rows of the slice with the participation counts ps, in this order
SliceIs(ps) ==
    /\ Len(student_df) = Len(ps)
    /\ \A i \in 1..Len(ps) : student_df[i].Participation = ps[i]

\* C8: 0.0 for an empty record set or weeksTotal = 0; otherwise
\* min(100*spokeWeeks/weeksTotal + min(2*max(0, totalSpeaks - spokeWeeks), 10), 100)
\* rounded to one decimal (score within 0.05 of it, in tenths); the four scores for
\* weeksTotal = 6.
C8_ScoreFormula ==
    Scored =>
        LET w == WeeksUsed
            s == SpokeRows(student_df)
            extra == IF TotalSpeaks(student_df) > s THEN TotalSpeaks(student_df) - s ELSE 0
            bonus == IF 2 * extra < 10 THEN 2 * extra ELSE 10
            exact == IF 1000 * s + 10 * bonus * w < 1000 * w   \* times w, in tenths
                     THEN 1000 * s + 10 * bonus * w ELSE 1000 * w
        IN  /\ (Len(student_df) = 0 \/ w = 0) => score = 0
            /\ (Len(student_df) > 0 /\ w > 0) =>
                   /\ 2 * (score * w - exact) <= w
                   /\ 2 * (exact - score * w) <= w
            /\ (weeks_total.given /\ w = 6) =>
                   /\ SliceIs(<<0, 0, 0, 0, 0, 0>>) => score = 0
                   /\ SliceIs(<<1, 1, 1, 1, 1, 1>>) => score = 1000
                   /\ SliceIs(<<1, 1, 1, 0, 0, 0>>) => score = 500
                   /\ SliceIs(<<3, 3, 2, 0, 0, 0>>) => score = 600

C8_Witness ==
    /\ Scored
    /\ weeks_total.given
    /\ weeks_total.n = 6
    /\ SliceIs(<<3, 3, 2, 0, 0, 0>>)
    /\ score = 600

\* C9 as stated: the score is in [0, 100] and at most 100*spokeWeeks/weeksTotal + 10.
C9_Original ==
    Scored =>
        /\ 0 <= score
        /\ score <= 1000
        /\ (Len(student_df) > 0 /\ WeeksUsed > 0) =>
               score * WeeksUsed <= 1000 * SpokeRows(student_df) + 100 * WeeksUsed

\* C9, amended: the score is in [0, 100]; the extra speeches add at most 10 points
\* before the rounding to one decimal, so the score is at most
\* 100*spokeWeeks/weeksTotal + 10 rounded to one decimal (at most 0.05 above it).
C9_ScoreHardCaps ==
    Scored =>
        /\ 0 <= score
        /\ score <= 1000
        /\ (Len(student_df) > 0 /\ WeeksUsed > 0) =>
               2 * (score * WeeksUsed
                      - (1000 * SpokeRows(student_df) + 100 * WeeksUsed)) <= WeeksUsed

C9_Witness ==
    /\ Scored
    /\ weeks_total.given
    /\ weeks_total.n = 6
    /\ SpokeRows(student_df) = 4
    /\ TotalSpeaks(student_df) >= 9
    /\ score = 767

(***************************************************************************)
(* Text order and the texts the scripts build.                             *)
(***************************************************************************)
\* the characters of the model in code point order (Python compares str so)
CharOrder ==
    << "\t", "\n", " ", "#", "$", "%", "(", ")", "*", "/",
       "0", "1", "2", "3", "4", "5", "6", "7", "8", "9" >>
    \o UpperCase \o Lower \o << "U+2713", "U+2714" >>

Code(c) == CHOOSE i \in 1..Len(CharOrder) : CharOrder[i] = c

\* a < b for str
TextLess(a, b) ==
    \E k \in 1..(Len(a) + 1) :
        /\ k <= Len(b)
        /\ \A j \in 1..(k - 1) : a[j] = b[j]
        /\ (k = Len(a) + 1 \/ Code(a[k]) < Code(b[k]))

Digits == <<"0", "1", "2", "3", "4", "5", "6", "7", "8", "9">>

IsDigit(c) == \E d \in 1..Len(Digits) : Digits[d] = c

DigitValue(c) == (CHOOSE d \in 1..Len(Digits) : Digits[d] = c) - 1

\* str(n) for a non-negative int
RECURSIVE IntText(_)
IntText(n) ==
    IF n < Len(Digits) THEN <<Digits[n + 1]>>
    ELSE IntText(n \div Len(Digits)) \o <<Digits[(n % Len(Digits)) + 1]>>

\* int(t) for a text of digits
RECURSIVE TextInt(_)
TextInt(t) ==
    IF t = <<>> THEN 0
    ELSE TextInt(SubSeq(t, 1, Len(t) - 1)) * Len(Digits) + DigitValue(t[Len(t)])

\* s.find(c): 0-based index of the first c, -1 when there is none
Find(s, c) ==
    IF HasChar(s, c)
    THEN (CHOOSE i \in 1..Len(s) : s[i] = c /\ \A j \in 1..(i - 1) : s[j] # c) - 1
    ELSE -1

\* " ".join(s.split()): runs of whitespace become one space, none at the ends
RECURSIVE JoinSplit(_)
JoinSplit(s) ==
    LET t == Strip(s)
    IN  IF t = <<>> THEN <<>>
        ELSE IF \A i \in 1..Len(t) : t[i] \notin Whitespace THEN t
        ELSE LET k == CHOOSE i \in 1..Len(t) :
                          t[i] \in Whitespace /\ \A j \in 1..(i - 1) : t[j] \notin Whitespace
             IN  SubSeq(t, 1, k - 1) \o <<" ">> \o JoinSplit(SubSeq(t, k + 1, Len(t)))

WEEK == <<"w", "e", "e", "k">>

\* the text starts with "week" at place i, whatever the letter case (flags=re.I)
WeekAt(s, i) ==
    /\ i + Len(WEEK) - 1 <= Len(s)
    /\ LowerText(SubSeq(s, i, i + Len(WEEK) - 1)) = WEEK

\* first place at or after i that holds no whitespace (Len(s) + 1 when none)
SkipSpace(s, i) ==
    IF \E j \in i..Len(s) : s[j] \notin Whitespace
    THEN CHOOSE j \in i..Len(s) :
            s[j] \notin Whitespace /\ \A k \in i..(j - 1) : s[k] \in Whitespace
    ELSE Len(s) + 1

\* last place of the run of digits that starts at i
DigitsEnd(s, i) ==
    CHOOSE j \in i..Len(s) :
        /\ \A k \in i..j : IsDigit(s[k])
        /\ (j = Len(s) \/ ~IsDigit(s[j + 1]))

\* re.search(r"week\s*(\d+)", s) matches at place i
WeekNumberAt(s, i) ==
    /\ WeekAt(s, i)
    /\ SkipSpace(s, i + Len(WEEK)) <= Len(s)
    /\ IsDigit(s[SkipSpace(s, i + Len(WEEK))])

\* _is_target_week by the substring test of line 141 alone
is_target_week_substring(col, week_number) ==
    Contains(LowerText(JoinSplit(col)), WEEK \o <<" ">> \o IntText(week_number))

\* update_week_cleaned.main._is_target_week, WEEK_NUMBER passed in
is_target_week(col, week_number) ==
    LET s_norm == LowerText(JoinSplit(col))
    IN  IF ~Contains(s_norm, WEEK) THEN FALSE
        ELSE IF \E i \in 1..Len(s_norm) : WeekNumberAt(s_norm, i)
        THEN LET i == CHOOSE a \in 1..Len(s_norm) :
                          /\ WeekNumberAt(s_norm, a)
                          /\ \A b \in 1..(a - 1) : ~WeekNumberAt(s_norm, b)
                 d == SkipSpace(s_norm, i + Len(WEEK))
             IN  TextInt(SubSeq(s_norm, d, DigitsEnd(s_norm, d))) = week_number
        ELSE Contains(s_norm, WEEK \o <<" ">> \o IntText(week_number))

\* the null marker of a column (None when written, NaN when read back)
Null == <<"NULL">>

\* header.split("(")[-1].split(")")[0].strip()
AfterLastOpen(header) ==
    LET o == CHOOSE i \in 1..Len(header) :
                 header[i] = "(" /\ \A j \in (i + 1)..Len(header) : header[j] # "("
        rest == SubSeq(header, o + 1, Len(header))
    IN  IF HasChar(rest, ")") THEN Strip(SubSeq(rest, 1, Find(rest, ")"))) ELSE Strip(rest)

extract_date_from_header(header) ==
    IF HasChar(header, "(") /\ HasChar(header, ")")
       /\ Find(header, "(") < Find(header, ")")
    THEN AfterLastOpen(header)
    ELSE Null

\* Python truth of an optional str
Truthy(t) == t # Null /\ t # <<>>

\* f"Week {WEEK_NUMBER} ({date_str})" or f"Week {WEEK_NUMBER}"
WeekLabel(week_number, date_str) ==
    IF Truthy(date_str)
    THEN <<"W", "e", "e", "k", " ">> \o IntText(week_number)
             \o <<" ", "(">> \o date_str \o <<")">>
    ELSE <<"W", "e", "e", "k", " ">> \o IntText(week_number)

(***************************************************************************)
(* Configuration and static tables of the two scripts.                     *)
(***************************************************************************)
WEEK_NUMBER == 7

WEEK_TOPIC == "Provider: Compensation, Education, Burn-out and Satisfaction"

WEEK_DATE == Null

\* clean_data.week_names: position i (0-based i - 1) -> label
week_names ==
    << WeekLabel(1, <<"9", "/", "4">>),
       WeekLabel(2, <<"9", "/", "1", "1">>),
       WeekLabel(3, <<"9", "/", "1", "8">>),
       WeekLabel(4, <<"9", "/", "2", "5">>),
       WeekLabel(5, <<"1", "0", "/", "2">>),
       WeekLabel(6, <<"1", "0", "/", "9">>) >>

\* clean_data.week_info: the topics, in the order of the labels of week_names
week_info ==
    << "U.S. Healthcare Ecosystem Overview and History",
       "Patient: Experience, Responsibility, and Paying for Healthcare",
       "Patient: Care Delivery - Where, Why, Impact and Challenges",
       "Payer: History, Overview, ACA and Services",
       "Payer: Medicare and Medicaid",
       "Provider: History, Types and Challenges" >>

STUDENT == <<"S", "t", "u", "d", "e", "n", "t">>

LedgerColumns == <<"Student", "Week", "Date", "Topic", "Participation", "Attendance">>

(***************************************************************************)
(* Data frames: columns is the list of column names, rows the list of rows *)
(* (a sheet row is the list of its cells, a ledger row a record).          *)
(***************************************************************************)
\* a sequence without the elements that fail keep, order kept
RECURSIVE SelectIdx(_, _, _)
SelectIdx(seq, keep(_), i) ==
    IF i > Len(seq) THEN <<>>
    ELSE (IF keep(i) THEN <<seq[i]>> ELSE <<>>) \o SelectIdx(seq, keep, i + 1)

\* the sequences of the sequence ss, one after the other
RECURSIVE Flatten(_)
Flatten(ss) == IF ss = <<>> THEN <<>> ELSE Head(ss) \o Flatten(Tail(ss))

\* df.rename(columns={df.columns[0]: "Student"}); df.dropna(subset=["Student"])
ParseSheet(sheet) ==
    [columns |-> IF sheet.columns = <<>> THEN <<>> ELSE <<STUDENT>> \o Tail(sheet.columns),
     rows    |-> SelectIdx(sheet.rows, LAMBDA i : ~IsNa(sheet.rows[i][1]), 1)]

\* "week" in str(c).lower()
IsWeekLike(c) == Contains(LowerText(c), WEEK)

\* index of the first column named c
ColumnIndex(columns, c) ==
    CHOOSE i \in 1..Len(columns) : columns[i] = c /\ \A j \in 1..(i - 1) : columns[j] # c

InColumns(columns, c) == \E i \in 1..Len(columns) : columns[i] = c

\* week.split("(")[-1].strip(")")
RECURSIVE StripClose(_)
StripClose(t) ==
    IF t # <<>> /\ Head(t) = ")" THEN StripClose(Tail(t))
    ELSE IF t # <<>> /\ t[Len(t)] = ")" THEN StripClose(SubSeq(t, 1, Len(t) - 1))
    ELSE t

DateOfLabel(week) ==
    IF HasChar(week, "(")
    THEN LET o == CHOOSE i \in 1..Len(week) :
                      week[i] = "(" /\ \A j \in (i + 1)..Len(week) : week[j] # "("
         IN  StripClose(SubSeq(week, o + 1, Len(week)))
    ELSE StripClose(week)

(***************************************************************************)
(* clean_data.py: the full extraction.                                     *)
(***************************************************************************)
\* lines 42-45: the i-th week-like column takes the i-th label of week_names;
\* df.rename renames every column that carries the old name
RECURSIVE RenameWeeks(_, _, _)
RenameWeeks(columns, week_cols, i) ==
    IF i > Len(week_cols) THEN columns
    ELSE IF i <= Len(week_names)
    THEN RenameWeeks([k \in 1..Len(columns) |->
                         IF columns[k] = week_cols[i] THEN week_names[i] ELSE columns[k]],
                     week_cols, i + 1)
    ELSE RenameWeeks(columns, week_cols, i + 1)

CleanColumns(df) ==
    RenameWeeks(df.columns,
                SelectIdx(df.columns, LAMBDA i : IsWeekLike(df.columns[i]), 1), 1)

\* lines 81-96: one record for each row and each label of week_info that is a column
CleanRecords(df) ==
    LET columns == CleanColumns(df)
        RowRecords(row) ==
            Flatten([k \in 1..Len(week_names) |->
                IF InColumns(columns, week_names[k])
                THEN LET val == row[ColumnIndex(columns, week_names[k])]
                     IN  << [Student       |-> Strip(StrOf(row[1]).text),
                             Week          |-> week_names[k],
                             Date          |-> DateOfLabel(week_names[k]),
                             Topic         |-> week_info[k],
                             Participation |-> ClassifyStr(val).Participation,
                             Attendance    |-> ClassifyStr(val).Attendance] >>
                ELSE <<>>])
    IN  Flatten([r \in 1..Len(df.rows) |-> RowRecords(df.rows[r])])

\* pd.DataFrame(records): no record, no column
FrameOf(records) ==
    [exists  |-> TRUE,
     columns |-> IF records = <<>> THEN <<>> ELSE LedgerColumns,
     rows    |-> records]

(***************************************************************************)
(* update_week_cleaned.main: extraction of one week, then the merge.       *)
(***************************************************************************)
\* lines 143-152: the first column that is the target week; the error payload
FindWeekColumn(columns, week_number) ==
    IF \E c \in 1..Len(columns) : is_target_week(columns[c], week_number)
    THEN CHOOSE c \in 1..Len(columns) :
             /\ is_target_week(columns[c], week_number)
             /\ \A b \in 1..(c - 1) : ~is_target_week(columns[b], week_number)
    ELSE 0

candidate_weeks(columns) == SelectIdx(columns, LAMBDA i : IsWeekLike(columns[i]), 1)

\* lines 154-173: new_records
NewRecords(df, week_col, week_number, topic, week_date) ==
    LET header_str == df.columns[week_col]
        date_str == IF Truthy(week_date) THEN week_date
                    ELSE extract_date_from_header(header_str)
        week_label == WeekLabel(week_number, date_str)
    IN  [r \in 1..Len(df.rows) |->
            [Student       |-> Strip(df.rows[r][1].text),
             Week          |-> week_label,
             Date          |-> date_str,
             Topic         |-> topic,
             Participation |-> ClassifyRaw(df.rows[r][week_col]).Participation,
             Attendance    |-> ClassifyRaw(df.rows[r][week_col]).Attendance]]

\* the cells of the first column of the sheet, row by row
FirstColumn(sheet) == [i \in 1..Len(sheet.rows) |-> sheet.rows[i][1]]

\* lines 112-173: what the run extracts before it touches the ledger; raw_found,
\* columns, week and names record what the run was given (the raw file was found,
\* the columns of df, WEEK_NUMBER, the first column of the rows it extracted from)
UpdateExtract(sheet, week_number, topic, week_date) ==
    LET df == ParseSheet(sheet)
        week_col == FindWeekColumn(df.columns, week_number)
    IN  IF ~sheet.exists
        THEN [outcome |-> "FileNotFoundError", batch |-> <<>>, payload |-> <<>>,
              raw_found |-> FALSE, columns |-> <<>>, week |-> week_number,
              names |-> <<>>]
        ELSE IF sheet.columns = <<>>
        THEN [outcome |-> "IndexError", batch |-> <<>>, payload |-> <<>>,
              raw_found |-> TRUE, columns |-> <<>>, week |-> week_number,
              names |-> <<>>]
        ELSE IF week_col = 0
        THEN [outcome |-> "ValueError", batch |-> <<>>,
              payload |-> candidate_weeks(df.columns),
              raw_found |-> TRUE, columns |-> df.columns, week |-> week_number,
              names |-> <<>>]
        ELSE [outcome |-> "extracted", payload |-> <<>>,
              batch |-> NewRecords(df, week_col, week_number, topic, week_date),
              raw_found |-> TRUE, columns |-> df.columns, week |-> week_number,
              names |-> FirstColumn(sheet)]

\* clean_data.py lines 14-96
CleanExtract(sheet) ==
    IF ~sheet.exists
    THEN [outcome |-> "FileNotFoundError", batch |-> <<>>, n_students |-> 0, n_weeks |-> 0,
          raw_found |-> FALSE, columns |-> <<>>, names |-> <<>>]
    ELSE IF sheet.columns = <<>>
    THEN [outcome |-> "IndexError", batch |-> <<>>, n_students |-> 0, n_weeks |-> 0,
          raw_found |-> TRUE, columns |-> <<>>, names |-> <<>>]
    ELSE [outcome    |-> "extracted",
          batch      |-> CleanRecords(ParseSheet(sheet)),
          n_students |-> Len(ParseSheet(sheet).rows),
          n_weeks    |-> Len(candidate_weeks(ParseSheet(sheet).columns)),
          raw_found  |-> TRUE,
          columns    |-> ParseSheet(sheet).columns,
          names      |-> FirstColumn(sheet)]

(***************************************************************************)
(* The header search: detect_header_row of update_week_cleaned.py and the  *)
(* loop of clean_data.py, on a sheet read with header=None.                *)
(***************************************************************************)
\* range(min(20, len(tmp)))
ScanDepth == 20

\* tmp.iloc[i].astype(str).str.contains("Week", case=False, na=False).any()
RowHasWeek(row) ==
    \E c \in 1..Len(row) : Contains(LowerText(StrOf(row[c]).text), WEEK)

\* the first row of the first depth rows of the grid that has a week cell (1-based),
\* 0 when there is none
FirstWeekRow(grid, depth) ==
    IF \E i \in 1..Min(depth, Len(grid)) : RowHasWeek(grid[i])
    THEN CHOOSE i \in 1..Min(depth, Len(grid)) :
             RowHasWeek(grid[i]) /\ \A j \in 1..(i - 1) : ~RowHasWeek(grid[j])
    ELSE 0

\* an int index (0-based) or None
Index(i) == [none |-> FALSE, idx |-> i]

None == [none |-> TRUE, idx |-> 0]

\* update_week_cleaned.detect_header_row
detect_header_row(tmp) ==
    IF FirstWeekRow(tmp, ScanDepth) # 0 THEN Index(FirstWeekRow(tmp, ScanDepth) - 1)
    ELSE Index(0)

\* clean_data.py lines 18-23: header_row_idx stays None when no row has a week cell
find_header_row(grid) ==
    IF FirstWeekRow(grid, Len(grid)) # 0 THEN Index(FirstWeekRow(grid, Len(grid)) - 1)
    ELSE None

NameCell == Str(<<"N", "a", "m", "e">>)

\* the name pd.read_excel gives the column k (0-based) from its header cell
ColumnName(c, k) ==
    IF IsNa(c) THEN <<"U", "n", "n", "a", "m", "e", "d", ":", " ">> \o IntText(k)
    ELSE c.text

\* pd.read_excel(path, header=h): the row h names the columns and the rows below it
\* are the data; with header=None the columns are named 0, 1, ... and every row is
\* data; an empty sheet has no column
read_excel(grid, h) ==
    IF grid = <<>> THEN [columns |-> <<>>, rows |-> <<>>]
    ELSE IF h.none
    THEN [columns |-> [k \in 1..Len(grid[1]) |-> IntText(k - 1)], rows |-> grid]
    ELSE [columns |-> [k \in 1..Len(grid[h.idx + 1]) |->
                          ColumnName(grid[h.idx + 1][k], k - 1)],
          rows    |-> SubSeq(grid, h.idx + 2, Len(grid))]

\* update_week_cleaned.main lines 112-119: the raw file as main reads it
ReadForUpdate(file) ==
    IF ~file.exists THEN [exists |-> FALSE, columns |-> <<>>, rows |-> <<>>]
    ELSE [exists |-> TRUE] @@ read_excel(file.grid, detect_header_row(file.grid))

\* clean_data.py lines 14-26
ReadForClean(file) ==
    IF ~file.exists THEN [exists |-> FALSE, columns |-> <<>>, rows |-> <<>>]
    ELSE [exists |-> TRUE] @@ read_excel(file.grid, find_header_row(file.grid))

(***************************************************************************)
(* The inputs of the runs: the sheets of Sheets, the configured week.      *)
(***************************************************************************)
MaxRows == 2

MaxWeekCols == 7

\* the dates in the headers of the sheet, week by week
SheetDates ==
    << <<"9", "/", "4">>, <<"9", "/", "1", "1">>, <<"9", "/", "1", "8">>,
       <<"9", "/", "2", "5">>, <<"1", "0", "/", "2">>, <<"1", "0", "/", "9">>,
       <<"1", "0", "/", "1", "6">>, <<"1", "0", "/", "2", "3">>,
       <<"1", "0", "/", "3", "0">> >>

RawHeader(j) == WeekLabel(j, SheetDates[j])

StudentCells == {Str(<<"A", "n", "a">>), Str(<<"B", "o", "b">>)}

CellVals == {NaN, Str(<<"#">>)}

StudentSeqs == UNION {[1..k -> StudentCells] : k \in 0..MaxRows}

WeekColCounts == {Len(week_names), MaxWeekCols}

\* a sheet with w week columns and one row for each cell of students; every week
\* cell of the sheet holds v
MakeSheet(w, students, v) ==
    [exists  |-> TRUE,
     columns |-> <<<<"N", "a", "m", "e">>>> \o [j \in 1..w |-> RawHeader(j)],
     rows    |-> [i \in 1..Len(students) |-> <<students[i]>> \o [j \in 1..w |-> v]]]

NoSheet == [exists |-> FALSE, columns |-> <<>>, rows |-> <<>>]

Sheets ==
    {NoSheet}
      \cup {MakeSheet(w, students, v) :
               w \in WeekColCounts, students \in StudentSeqs, v \in CellVals}

Configs == {[week |-> WEEK_NUMBER, topic |-> WEEK_TOPIC, date |-> WEEK_DATE]}

\* what the update runs can extract from the inputs, computed once
UpdateExtracts ==
    {UpdateExtract(sheet, cfg.week, cfg.topic, cfg.date) : sheet \in Sheets, cfg \in Configs}

\* what the full extractions can extract from the inputs, computed once
CleanExtracts == {CleanExtract(sheet) : sheet \in Sheets}

(***************************************************************************)
(* Raw files of several shapes: title rows above the header, headers with  *)
(* and without week columns, no header row at all.                         *)
(***************************************************************************)
MaxTitleRows == 1

TextCells(ts) == [k \in 1..Len(ts) |-> Str(ts[k])]

\* a row above the header: a title in the first cell
TitleRow(width) ==
    [k \in 1..width |-> IF k = 1 THEN Str(<<"C", "l", "a", "s", "s">>) ELSE NaN]

\* the seven week columns of the class sheet
ClassHeader == <<NameCell>> \o [j \in 1..MaxWeekCols |-> Str(RawHeader(j))]

\* no column of the week convention
NoWeekHeader == TextCells(<< <<"N", "a", "m", "e">>, <<"T", "o", "t", "a", "l">> >>)

\* week columns of other week numbers, and a column that merely contains "week"
OtherWeeksHeader ==
    TextCells(<< <<"N", "a", "m", "e">>,
                 <<"W", "e", "e", "k", " ", "1", "7", " ", "(", "1", "/", "8", ")">>,
                 <<"W", "E", "E", "K", " ", " ", "7", "0">>,
                 <<"B", "i", "w", "e", "e", "k", "l", "y">> >>)

\* the week number right after the word, in lower case
CompactHeader == TextCells(<< <<"N", "a", "m", "e">>, <<"w", "e", "e", "k", "7">> >>)

\* <<>> stands for a sheet without a header row
ShapeHeaders == {ClassHeader, NoWeekHeader, OtherWeeksHeader, CompactHeader, <<>>}

NoRawFile == [exists |-> FALSE, grid |-> <<>>]

\* a raw file: title rows, the header row if any, one row for each cell of students
\* with v in every other cell
MakeFile(titles, hdr, students, v) ==
    LET width == IF hdr = <<>> THEN 2 ELSE Len(hdr)
    IN  [exists |-> TRUE,
         grid   |-> [i \in 1..titles |-> TitleRow(width)]
                      \o (IF hdr = <<>> THEN <<>> ELSE <<hdr>>)
                      \o [i \in 1..Len(students) |->
                             <<students[i]>> \o [j \in 1..(width - 1) |-> v]]]

ShapeStudents == {<<Str(<<"A", "n", "a">>)>>}

ShapeFiles ==
    {NoRawFile, [exists |-> TRUE, grid |-> <<>>]}
      \cup {MakeFile(titles, hdr, students, v) :
               titles \in 0..MaxTitleRows, hdr \in ShapeHeaders,
               students \in ShapeStudents, v \in CellVals}

\* --week 7 (the configured week) and --week 1
ShapeConfigs ==
    {[week |-> n, topic |-> WEEK_TOPIC, date |-> WEEK_DATE] : n \in {WEEK_NUMBER, 1}}

ShapeUpdateExtracts ==
    {UpdateExtract(ReadForUpdate(file), cfg.week, cfg.topic, cfg.date) :
        file \in ShapeFiles, cfg \in ShapeConfigs}

ShapeCleanExtracts == {CleanExtract(ReadForClean(file)) : file \in ShapeFiles}

(***************************************************************************)
(* Runs for week 7 with and without --date, from the class sheet and from  *)
(* a sheet whose week column is headed "week7".                            *)
(***************************************************************************)
StoreStudents == {<<Str(<<"A", "n", "a">>)>>}

StoreFiles ==
    {MakeFile(0, hdr, students, v) :
        hdr \in {ClassHeader, CompactHeader}, students \in StoreStudents, v \in CellVals}

\* --date 10/17, or no --date
StoreConfigs ==
    {[week |-> WEEK_NUMBER, topic |-> WEEK_TOPIC, date |-> d] :
        d \in {WEEK_DATE, <<"1", "0", "/", "1", "7">>}}

StoreUpdateExtracts ==
    {UpdateExtract(ReadForUpdate(file), cfg.week, cfg.topic, cfg.date) :
        file \in StoreFiles, cfg \in StoreConfigs}

StoreCleanExtracts ==
    {CleanExtract(ReadForClean(MakeFile(0, ClassHeader, students, v))) :
        students \in StoreStudents, v \in CellVals}

(***************************************************************************)
(* Class sheets whose first column holds blank cells and padded names.     *)
(***************************************************************************)
IdentityCells ==
    { Str(<<"A", "n", "a">>), Str(<<" ", "B", "o", "b", " ">>), Str(<<" ">>), NaN }

IdentityStudents == UNION {[1..k -> IdentityCells] : k \in 1..MaxRows}

IdentityFiles ==
    {MakeFile(0, ClassHeader, students, Str(<<"#">>)) : students \in IdentityStudents}

IdentityUpdateExtracts ==
    {UpdateExtract(ReadForUpdate(file), WEEK_NUMBER, WEEK_TOPIC, WEEK_DATE) :
        file \in IdentityFiles}

IdentityCleanExtracts == {CleanExtract(ReadForClean(file)) : file \in IdentityFiles}

(***************************************************************************)
(* The batches of two update runs, one for week 7 and one for week 6.      *)
(***************************************************************************)
RaceStudents == {<<Str(<<"A", "n", "a">>)>>, <<Str(<<"A", "n", "a">>), Str(<<"B", "o", "b">>)>>}

RaceWeeks == <<WEEK_NUMBER, WEEK_NUMBER - 1>>

\* the batches an update run for week n can extract from the class sheet
RaceBatches(n) ==
    {UpdateExtract(ReadForUpdate(MakeFile(0, ClassHeader, students, v)),
                   n, WEEK_TOPIC, WEEK_DATE).batch :
        students \in RaceStudents, v \in CellVals}

\* the texts that can be a Student or a Week of a ledger row: the names of the
\* sheets, trimmed, and the labels of the weeks with the dates of the sheet, with
\* the date of --date and without a date
KeyTexts ==
    {Null, <<>>, <<"A", "n", "a">>, <<"B", "o", "b">>}
      \cup {WeekLabel(n, d) :
               n \in 1..MaxWeekCols,
               d \in {Null, <<"1", "0", "/", "1", "7">>}
                        \cup {SheetDates[k] : k \in 1..Len(SheetDates)}}

\* order of the sort keys: str by code point, NaN last
ValueLess(a, b) == a # Null /\ (b = Null \/ TextLess(a, b))

\* the place of each key text in that order, computed once
KeyRank == [t \in KeyTexts |-> Cardinality({u \in KeyTexts : ValueLess(u, t)})]

\* pd.read_excel of the ledger: an empty text cell comes back as NaN
ReadExcel(file) ==
    LET TextColumns == {"Student", "Week", "Date"}
        Blank(row) == \E c \in TextColumns \cap DOMAIN row : row[c] = <<>>
    IN  IF \A i \in 1..Len(file.rows) : ~Blank(file.rows[i]) THEN file
        ELSE [file EXCEPT !.rows =
                [i \in 1..Len(file.rows) |->
                    [c \in DOMAIN file.rows[i] |->
                        IF c \in TextColumns /\ file.rows[i][c] = <<>>
                        THEN Null ELSE file.rows[i][c]]]]

\* list(dict.fromkeys(cols)): the first occurrence of each name, in order
OrderedUnique(cols) ==
    SelectIdx(cols, LAMBDA i : \A j \in 1..(i - 1) : cols[j] # cols[i], 1)

\* a reindex that copies into a missing column the value of the row before
Reindex_fill_from_previous(df, all_cols) ==
    LET names == {all_cols[k] : k \in 1..Len(all_cols)}
    IN  [i \in 1..Len(df.rows) |->
            [c \in names |-> IF c \in DOMAIN df.rows[i] THEN df.rows[i][c]
                             ELSE <<"o", "k">>]]

\* df.reindex(columns=all_cols): a column the frame lacks is filled with the null
\* marker; a frame that has these columns keeps its rows
Reindex(df, all_cols) ==
    LET names == {all_cols[k] : k \in 1..Len(all_cols)}
    IN  IF \A i \in 1..Len(df.rows) : DOMAIN df.rows[i] = names THEN df.rows
        ELSE [i \in 1..Len(df.rows) |->
                [c \in names |-> IF c \in DOMAIN df.rows[i] THEN df.rows[i][c] ELSE Null]]

SameKey(r1, r2) == r1.Student = r2.Student /\ r1.Week = r2.Week

\* rows placed by place: the row i goes to place[i]
RECURSIVE Placed(_, _, _)
Placed(rows, place, p) ==
    IF p > Len(rows) THEN <<>>
    ELSE <<rows[CHOOSE i \in 1..Len(rows) : place[i] = p]>> \o Placed(rows, place, p + 1)

\* the place of each row of keys key: after the rows of smaller keys and, among the
\* rows of its own key, after the earlier ones
Places(key) ==
    LET Before(j, i) ==
            \/ key[j][1] < key[i][1]
            \/ /\ key[j][1] = key[i][1]
               /\ \/ key[j][2] < key[i][2]
                  \/ key[j][2] = key[i][2] /\ j < i
    IN  [i \in 1..Len(key) |-> 1 + Cardinality({j \in 1..Len(key) : Before(j, i)})] \o <<>>

\* the rows in the order of their keys <<Student, Week>>
SortByKey(rows) ==
    Placed(rows,
           Places([i \in 1..Len(rows) |->
                      <<KeyRank[rows[i].Student], KeyRank[rows[i].Week]>>] \o <<>>),
           1)

\* updated.sort_values(by=["Student", "Week"]): two keys, so a lexsort, which is stable
sort_values(rows) == SortByKey(rows)

\* drop_duplicates with keep="first"
drop_duplicates_keep_first(rows) ==
    SelectIdx(rows, LAMBDA i : \A j \in 1..(i - 1) : ~SameKey(rows[i], rows[j]), 1)

\* updated.drop_duplicates(subset=["Student", "Week"], keep="last")
drop_duplicates(rows) ==
    SelectIdx(rows, LAMBDA i : \A j \in (i + 1)..Len(rows) : ~SameKey(rows[i], rows[j]), 1)

RequiredColumns == <<"Student", "Week", "Topic", "Participation", "Attendance">>

\* lines 183-201: the ledger file exists
AppendAndDedupe(file, new_df) ==
    LET cleaned_df == ReadExcel(file)
        new_cols == new_df.columns
                      \o SelectIdx(RequiredColumns,
                                   LAMBDA i : ~InColumns(new_df.columns, RequiredColumns[i]), 1)
        all_cols == OrderedUnique(cleaned_df.columns \o new_cols)
        updated == Reindex(cleaned_df, all_cols) \o Reindex(new_df, all_cols)
    IN  [exists  |-> TRUE,
         columns |-> all_cols,
         rows    |-> IF InColumns(all_cols, "Student") /\ InColumns(all_cols, "Week")
                     THEN drop_duplicates(sort_values(updated))
                     ELSE updated]

\* lines 182-206: append and dedupe, or create the file from the new week alone
WriteLedger(file, new_df) ==
    IF file.exists THEN AppendAndDedupe(file, new_df) ELSE new_df

\* the number of rows of the ledger file whose key is a key of batch
Superseded(file, batch) ==
    Cardinality({i \in 1..Len(file.rows) :
                    \E k \in 1..Len(batch) : SameKey(file.rows[i], batch[k])})

\* the update run: main(dry_run); x is what lines 112-173 extract from the sheet
\* under the configuration
UpdateRun(x, dry_run) ==
    LET \* batch: the rows handed to the ledger write (none in a dry run)
        done(outcome, path, n_superseded) ==
            [op |-> "update", outcome |-> outcome, path |-> path,
             batch |-> IF outcome = "written" THEN x.batch ELSE <<>>,
             payload |-> x.payload, n_superseded |-> n_superseded,
             n_students |-> Len(x.batch), n_weeks |-> 1,
             raw_found |-> x.raw_found, columns |-> x.columns, week |-> x.week,
             names |-> IF outcome = "written" THEN x.names ELSE <<>>]
    IN  /\ UNCHANGED <<cell, classified, student_df, weeks_total, score, headerVars, dateVars, raceVars>>
        /\ IF x.outcome # "extracted"
           THEN /\ run' = done(x.outcome, "none", 0)
                /\ UNCHANGED ledger
           ELSE IF dry_run
           THEN /\ run' = done("dry_run", "none", 0)
                /\ UNCHANGED ledger
           ELSE IF ledger = Unreadable
           THEN \* line 184 raises
                /\ run' = done("ReadError", "append", 0)
                /\ UNCHANGED ledger
           ELSE /\ run' = done("written", IF ledger.exists THEN "append" ELSE "create",
                               Superseded(ledger, x.batch))
                /\ ledger' = WriteLedger(ledger, FrameOf(x.batch))

\* the full extraction: the script clean_data.py from top to bottom; x is what
\* lines 14-96 extract from the sheet
CleanRun(x) ==
    LET done(outcome) ==
            [op |-> "clean", outcome |-> outcome, path |-> "none", batch |-> x.batch,
             payload |-> <<>>, n_superseded |-> 0,
             n_students |-> x.n_students, n_weeks |-> x.n_weeks,
             raw_found |-> x.raw_found, columns |-> x.columns, week |-> 0,
             names |-> x.names]
    IN  /\ UNCHANGED <<cell, classified, student_df, weeks_total, score, headerVars, dateVars, raceVars>>
        /\ IF x.outcome # "extracted"
           THEN /\ run' = done(x.outcome)
                /\ UNCHANGED ledger
           ELSE /\ run' = done("written")
                /\ ledger' = FrameOf(x.batch)

(***************************************************************************)
(* The runs against one ledger file.                                       *)
(***************************************************************************)
Init ==
    /\ IdleCell /\ IdleScore /\ ledger = NoFile /\ run = NoRun
    /\ IdleHeader /\ IdleDate /\ IdleRace

Update == \E x \in UpdateExtracts, dry_run \in BOOLEAN : UpdateRun(x, dry_run)

Clean == \E x \in CleanExtracts : CleanRun(x)

Next == Update \/ Clean

Spec == Init /\ [][Next]_vars

(***************************************************************************)
(* Properties of the runs.                                                 *)
(***************************************************************************)
Wrote(op) == run.op = op /\ run.outcome = "written"

\* the last record of batch with the key of r
LastOfKey(batch, r) ==
    batch[CHOOSE k \in 1..Len(batch) :
             /\ SameKey(batch[k], r)
             /\ \A m \in (k + 1)..Len(batch) : ~SameKey(batch[m], r)]

\* C1: the ledger file written by an update run or by the full extraction holds no
\* two rows with the same (Student, Week).
C1_KeyUniqueness ==
    (Wrote("update") \/ Wrote("clean")) =>
        \A i, j \in 1..Len(ledger.rows) :
            i < j => ~SameKey(ledger.rows[i], ledger.rows[j])

\* C2: an update run that merges the batch the run before it merged (same week,
\* same sheet) leaves the rows of the ledger as they were, in the same order.
C2_IdempotentAppend ==
    [][ ( /\ Wrote("update")
          /\ run'.op = "update" /\ run'.outcome = "written"
          /\ run'.batch = run.batch )
        => ledger'.rows = ledger.rows ]_vars

\* C3: when the existing ledger and the new batch hold a record of the same
\* (Student, Week), the merged ledger holds one record of that key, and its Date,
\* Topic, Participation and Attendance are those of the (last) record of the batch.
C3_LastWriteWins ==
    [][ ( /\ run'.op = "update" /\ run'.outcome = "written"
          /\ ledger.exists )
        => \A i \in 1..Len(ledger.rows) :
              (\E k \in 1..Len(run'.batch) : SameKey(run'.batch[k], ledger.rows[i])) =>
                  LET new == LastOfKey(run'.batch, ledger.rows[i])
                      hits == {j \in 1..Len(ledger'.rows) :
                                  SameKey(ledger'.rows[j], new)}
                  IN  /\ Cardinality(hits) = 1
                      /\ \A j \in hits :
                            /\ ledger'.rows[j].Date = new.Date
                            /\ ledger'.rows[j].Topic = new.Topic
                            /\ ledger'.rows[j].Participation = new.Participation
                            /\ ledger'.rows[j].Attendance = new.Attendance ]_vars

\* an update run merged a batch into a ledger that held records of its keys
C3_Witness ==
    /\ Wrote("update")
    /\ run.path = "append"
    /\ run.n_superseded > 0
    /\ \E j \in 1..Len(ledger.rows) :
          /\ SameKey(ledger.rows[j], run.batch[Len(run.batch)])
          /\ ledger.rows[j].Participation = run.batch[Len(run.batch)].Participation

\* C4: every record the ledger held before a run that writes it, and whose key is
\* not in the run's batch, is in the ledger after the run.
C4_AppendOnly ==
    [][ run'.outcome = "written"
        => \A i \in 1..Len(ledger.rows) :
              (\A k \in 1..Len(run'.batch) : ~SameKey(run'.batch[k], ledger.rows[i])) =>
                  \E j \in 1..Len(ledger'.rows) : ledger'.rows[j] = ledger.rows[i] ]_vars

\* C10: the full extraction of a table with S student rows and W week columns emits
\* S*W records, and they are the ledger it writes.
C10_ReshapeCompleteness ==
    Wrote("clean") =>
        /\ Len(run.batch) = run.n_students * run.n_weeks
        /\ ledger.rows = run.batch

(***************************************************************************)
(* The header search on its own: every grid of Grids, both scripts.        *)
(***************************************************************************)
\* the rows above the header: at most MaxLead of them
MaxLead == 21

\* rows without a week cell
FillerRows ==
    { <<NaN, NaN>>,
      <<Str(<<"C", "l", "a", "s", "s">>), Num(<<"2", "0", "2", "5">>)>> }

\* rows with a week cell, in several letter cases
HeaderRows ==
    { <<NameCell, Str(RawHeader(1))>>,
      <<NameCell, Str(<<"W", "E", "E", "K", " ", "1">>)>>,
      <<NaN, Str(<<"w", "e", "e", "k", "1">>)>>,
      <<Str(<<"B", "i", "w", "e", "e", "k", "l", "y">>), NaN>> }

DataRow == <<Str(<<"A", "n", "a">>), Str(<<"#">>)>>

\* lead filler rows, then a header row or none, then a row of data
Grids ==
    { [i \in 1..lead |-> filler] \o top \o <<DataRow>> :
          lead \in 0..MaxLead, filler \in FillerRows,
          top \in {<<>>} \cup {<<h>> : h \in HeaderRows} }
      \cup {<<>>}

DetectUpdatePath ==
    /\ header_row_idx = NotRun
    /\ header_row_idx' = [path |-> "update"] @@ detect_header_row(df_raw)
    /\ UNCHANGED <<cell, classified, student_df, weeks_total, score, ledger, run,
                   df_raw, dateVars, raceVars>>

DetectCleanPath ==
    /\ header_row_idx = NotRun
    /\ header_row_idx' = [path |-> "clean"] @@ find_header_row(df_raw)
    /\ UNCHANGED <<cell, classified, student_df, weeks_total, score, ledger, run,
                   df_raw, dateVars, raceVars>>

InitHeader ==
    /\ df_raw \in Grids
    /\ header_row_idx = NotRun
    /\ IdleCell /\ IdleScore /\ IdleLedger /\ IdleDate /\ IdleRace

NextHeader == DetectUpdatePath \/ DetectCleanPath

SpecHeader == InitHeader /\ [][NextHeader]_vars

\* the header search has returned
Located == header_row_idx # NotRun

\* C11: the header search of either script returns the smallest 0-based index, among
\* the first 20 rows, of a row with a cell that contains "week" in any letter case,
\* and the index 0, never None, when the first 20 rows hold no such row.
C11_HeaderLocation ==
    Located =>
        /\ ~header_row_idx.none
        /\ \/ /\ header_row_idx.idx + 1 <= Min(ScanDepth, Len(df_raw))
              /\ RowHasWeek(df_raw[header_row_idx.idx + 1])
              /\ \A j \in 1..header_row_idx.idx : ~RowHasWeek(df_raw[j])
           \/ /\ header_row_idx.idx = 0
              /\ \A j \in 1..Min(ScanDepth, Len(df_raw)) : ~RowHasWeek(df_raw[j])

(***************************************************************************)
(* The runs on raw files of several shapes.                                *)
(***************************************************************************)
UpdateShape == \E x \in ShapeUpdateExtracts, dry_run \in BOOLEAN : UpdateRun(x, dry_run)

CleanShape == \E x \in ShapeCleanExtracts : CleanRun(x)

NextShape == UpdateShape \/ CleanShape

SpecShape == Init /\ [][NextShape]_vars

Errors == {"FileNotFoundError", "ValueError", "IndexError"}

\* the column names that contain "week" in any letter case
WeekLike(columns) ==
    {k \in 1..Len(columns) : Contains(LowerText(columns[k]), WEEK)}

\* C12: a run that finds no source file, or whose header has no column of the week
\* convention, ends in an error and leaves the ledger file as it was; update run and
\* full extraction alike.
C12_StructuralFailuresAbort ==
    [][ ( /\ run'.op \in {"update", "clean"}
          /\ (~run'.raw_found \/ WeekLike(run'.columns) = {}) )
        => (run'.outcome \in Errors /\ ledger' = ledger) ]_vars

\* the header text c has, somewhere, the word "week" in any letter case, then
\* whitespace or none, then a number that equals n
CarriesWeek(c, n) ==
    LET s == LowerText(c)
    IN  \E i \in 1..Len(s) :
            /\ WeekNumberAt(s, i)
            /\ LET d == SkipSpace(s, i + Len(WEEK))
               IN  TextInt(SubSeq(s, d, DigitsEnd(s, d))) = n

\* C13: an update run on a sheet none of whose columns carries the requested week
\* number fails with ValueError, the payload of the error lists exactly the columns
\* whose header contains "week" in any letter case, in the order of the sheet, and
\* the ledger file is left as it was (so a column "Week 17" is not taken for week 7
\* or week 1).
C13_TargetWeekMissing ==
    [][ ( /\ run'.op = "update"
          /\ run'.raw_found
          /\ run'.columns # <<>>
          /\ \A k \in 1..Len(run'.columns) : ~CarriesWeek(run'.columns[k], run'.week) )
        => /\ run'.outcome = "ValueError"
           /\ run'.payload =
                  SelectSeq(run'.columns, LAMBDA c : Contains(LowerText(c), WEEK))
           /\ ledger' = ledger ]_vars

\* week 1 was requested from a sheet whose week columns are "Week 17 (1/8)", "WEEK  70"
\* and "Biweekly", with a ledger that holds records
C13_Witness ==
    /\ run.op = "update"
    /\ run.outcome = "ValueError"
    /\ run.week = 1
    /\ Len(run.payload) = 3
    /\ ledger.exists
    /\ ledger.rows # <<>>

(***************************************************************************)
(* The ledger file between the runs: it can be damaged, and a column can   *)
(* be added to it by hand.                                                 *)
(***************************************************************************)
\* the ledger file is replaced by something pd.read_excel cannot read
Damage ==
    /\ ledger.exists
    /\ ledger # Unreadable
    /\ ledger' = Unreadable
    /\ run' = [NoRun EXCEPT !.op = "damage"]
    /\ UNCHANGED <<cell, classified, student_df, weeks_total, score,
                   headerVars, dateVars, raceVars>>

NOTES == "Notes"

NoteTexts == {<<"o", "k">>}

\* a column Notes is added to the ledger file, with the same note in every row
Annotate ==
    /\ ledger.exists
    /\ ledger # Unreadable
    /\ ledger.rows # <<>>
    /\ ~InColumns(ledger.columns, NOTES)
    /\ \E note \in NoteTexts :
          ledger' = [ledger EXCEPT
                        !.columns = @ \o <<NOTES>>,
                        !.rows = [i \in 1..Len(@) |-> @[i] @@ [Notes |-> note]] \o <<>>]
    /\ run' = [NoRun EXCEPT !.op = "annotate"]
    /\ UNCHANGED <<cell, classified, student_df, weeks_total, score,
                   headerVars, dateVars, raceVars>>

UpdateStore == \E x \in StoreUpdateExtracts, dry_run \in BOOLEAN : UpdateRun(x, dry_run)

CleanStore == \E x \in StoreCleanExtracts : CleanRun(x)

NextStore == UpdateStore \/ CleanStore \/ Damage \/ Annotate

SpecStore == Init /\ [][NextStore]_vars

\* C14: an update run that gets to the merge while the ledger file does not exist,
\* or exists and cannot be read, writes a ledger that holds exactly the records of
\* its batch.
C14_MissingLedgerFallback ==
    [][ ( /\ run'.op = "update"
          /\ run'.outcome \notin Errors \cup {"dry_run"}
          /\ (~ledger.exists \/ ledger = Unreadable) )
        => /\ run'.outcome = "written"
           /\ ledger'.exists
           /\ ledger'.rows = run'.batch ]_vars

\* the row has the key of a record of the batch
InBatch(batch, row) == \E k \in 1..Len(batch) : SameKey(batch[k], row)

\* C15: when an update run merges its batch into an existing ledger, every column
\* of the existing ledger is a column of the merged ledger; a record kept from the
\* existing ledger is in the merged ledger with its values in those columns, and a
\* record of the batch holds the null marker in every column other than Student,
\* Week, Date, Topic, Participation and Attendance.
C15_ColumnUnion ==
    [][ ( /\ run'.op = "update" /\ run'.outcome = "written"
          /\ ledger.exists )
        => /\ \A c \in 1..Len(ledger.columns) : InColumns(ledger'.columns, ledger.columns[c])
           /\ \A j \in 1..Len(ledger'.rows) :
                 DOMAIN ledger'.rows[j] = {ledger'.columns[c] : c \in 1..Len(ledger'.columns)}
           /\ \A i \in 1..Len(ledger.rows) :
                 ~InBatch(run'.batch, ledger.rows[i]) =>
                     \E j \in 1..Len(ledger'.rows) :
                         \A c \in DOMAIN ledger.rows[i] :
                             /\ c \in DOMAIN ledger'.rows[j]
                             /\ ledger'.rows[j][c] = ledger.rows[i][c]
           /\ \A j \in 1..Len(ledger'.rows) :
                 InBatch(run'.batch, ledger'.rows[j]) =>
                     \A c \in DOMAIN ledger'.rows[j] :
                         c \notin {LedgerColumns[k] : k \in 1..Len(LedgerColumns)} =>
                             ledger'.rows[j][c] = Null ]_vars

\* a merged ledger with the column Notes: a record kept with its note next to a
\* record of the batch without one
C15_Witness ==
    /\ Wrote("update")
    /\ run.path = "append"
    /\ InColumns(ledger.columns, NOTES)
    /\ \E i, j \in 1..Len(ledger.rows) :
          /\ ~InBatch(run.batch, ledger.rows[i])
          /\ ledger.rows[i].Notes \in NoteTexts
          /\ InBatch(run.batch, ledger.rows[j])
          /\ ledger.rows[j].Notes = Null

(***************************************************************************)
(* The runs on sheets with blank and padded cells in the first column.     *)
(***************************************************************************)
UpdateIdentity ==
    \E x \in IdentityUpdateExtracts, dry_run \in BOOLEAN : UpdateRun(x, dry_run)

CleanIdentity == \E x \in IdentityCleanExtracts : CleanRun(x)

NextIdentity == UpdateIdentity \/ CleanIdentity

SpecIdentity == Init /\ [][NextIdentity]_vars

\* a first-column cell that is missing, empty or made of whitespace only
BlankIdentity(c) == c.kind = "nan" \/ \A k \in 1..Len(c.text) : c.text[k] \in Whitespace

\* the text without the whitespace at its two ends, letter case as it is
RECURSIVE Trimmed(_)
Trimmed(t) ==
    IF t = <<>> THEN t
    ELSE IF Head(t) \in Whitespace THEN Trimmed(Tail(t))
    ELSE IF t[Len(t)] \in Whitespace THEN Trimmed(SubSeq(t, 1, Len(t) - 1))
    ELSE t

\* C16: no record emitted by an update run or by the full extraction has an empty
\* Student; the Students of the records are the first-column cells that are not
\* blank, trimmed, letter case unchanged.
C16_BlankIdentityDropped ==
    (Wrote("update") \/ Wrote("clean")) =>
        /\ \A i \in 1..Len(run.batch) : run.batch[i].Student # <<>>
        /\ {run.batch[i].Student : i \in 1..Len(run.batch)}
             = {Trimmed(run.names[k].text) :
                   k \in {n \in 1..Len(run.names) : ~BlankIdentity(run.names[n])}}

(***************************************************************************)
(* The score in the two views of the dashboard, on the rows a student has  *)
(* in the ledger; a week can have more than one row.                       *)
(***************************************************************************)
MaxViewRows == 3

MaxViewWeeks == 2

MaxViewPart == 2

ViewRows == [Week : 1..MaxViewWeeks, Participation : 0..MaxViewPart]

\* df[df["Student"] == student_choice]: the rows of one student
ViewSlices == UNION {[1..k -> ViewRows] : k \in 1..MaxViewRows}

\* groupby(["Student", "Week"])["Participation"].sum(), for one student: one row for
\* each week of the slice, in the order of the weeks
RECURSIVE GroupByWeek(_, _)
GroupByWeek(df, w) ==
    IF w > MaxViewWeeks THEN <<>>
    ELSE (IF \E i \in 1..Len(df) : df[i].Week = w
          THEN << [Week |-> w,
                   Participation |->
                       SumOf([i \in 1..Len(df) |->
                                 IF df[i].Week = w THEN df[i].Participation ELSE 0],
                             1..Len(df))] >>
          ELSE <<>>)
         \o GroupByWeek(df, w + 1)

\* By Student, lines 447 and 477-478: the rows of the student as they are; n is
\* df["Week"].nunique() of the whole ledger
ScoreByStudent(n) ==
    /\ weeks_total = NotCalled
    /\ weeks_total' = [given |-> TRUE, n |-> n]
    /\ score' = calculate_score(student_df, [given |-> TRUE, n |-> n])
    /\ UNCHANGED <<cell, classified, student_df, ledger, run,
                   headerVars, dateVars, raceVars>>

\* Overview, lines 357-366: the rows of by_student_week of the student
ScoreOverview(n) ==
    /\ weeks_total = NotCalled
    /\ weeks_total' = [given |-> TRUE, n |-> n]
    /\ score' = calculate_score(GroupByWeek(student_df, 1), [given |-> TRUE, n |-> n])
    /\ UNCHANGED <<cell, classified, student_df, ledger, run,
                   headerVars, dateVars, raceVars>>

InitViews ==
    /\ student_df \in ViewSlices
    /\ weeks_total = NotCalled
    /\ score = 0
    /\ IdleCell /\ IdleLedger /\ IdleHeader /\ IdleDate /\ IdleRace

\* the weeks of the ledger include the weeks of the student
ByStudentView ==
    \E n \in 1..MaxViewWeeks : n >= NUnique(student_df) /\ ScoreByStudent(n)

OverviewView ==
    \E n \in 1..MaxViewWeeks : n >= NUnique(student_df) /\ ScoreOverview(n)

NextViews == ByStudentView \/ OverviewView

SpecViews == InitViews /\ [][NextViews]_vars

\* the number of distinct weeks of the slice with a participation count > 0
SpokeWeeksDistinct(df) ==
    Cardinality({df[i].Week : i \in {k \in 1..Len(df) : df[k].Participation > 0}})

\* C17: the score either view shows for the rows of a student, a week with more than
\* one row included, is the score of the formula with spokeWeeks the number of
\* distinct weeks in which a participation count is > 0 (so both views show the same).
C17_SpokeWeeksDistinct ==
    Scored =>
        LET w == weeks_total.n
            spoke == SpokeWeeksDistinct(student_df)
            bonus == Min(Max(0, TotalSpeaks(student_df) - spoke) * 2, 10)
            exact == Min(1000 * spoke + 10 * bonus * w, 1000 * w)
        IN  /\ 2 * (score * w - exact) <= w
            /\ 2 * (exact - score * w) <= w

(***************************************************************************)
(* The date of a week column on its own: every header text of Headers.     *)
(***************************************************************************)
MaxHeader == 6

HeaderChars == {"(", ")", "a", "b", " "}

Headers == UNION {[1..k -> HeaderChars] : k \in 0..MaxHeader}

\* lines 155-160 with WEEK_DATE = None: the date of the header, then the label
LabelFromHeader(week_number) ==
    /\ labelled = NotRun
    /\ labelled' =
          LET date_str == extract_date_from_header(col_header)
          IN  [path |-> "update", week |-> week_number, date_str |-> date_str,
               week_label |-> WeekLabel(week_number, date_str)]
    /\ UNCHANGED <<cell, classified, student_df, weeks_total, score, ledger, run,
                   col_header, headerVars, raceVars>>

InitDate ==
    /\ col_header \in Headers
    /\ labelled = NotRun
    /\ IdleCell /\ IdleScore /\ IdleLedger /\ IdleHeader /\ IdleRace

NextDate == \E week_number \in {WEEK_NUMBER, 12} : LabelFromHeader(week_number)

SpecDate == InitDate /\ [][NextDate]_vars

\* the number of places of h in a..b that hold c
Occurrences(h, c, a, b) == Cardinality({k \in a..b : h[k] = c})

\* the place of the ")" that matches the "(" at place o, 0 when there is none
MatchingClose(h, o) ==
    LET Closes(j) ==
            /\ h[j] = ")"
            /\ Occurrences(h, ")", o + 1, j) = Occurrences(h, "(", o + 1, j) + 1
    IN  IF \E j \in (o + 1)..Len(h) : Closes(j)
        THEN CHOOSE j \in (o + 1)..Len(h) :
                 Closes(j) /\ \A k \in (o + 1)..(j - 1) : ~Closes(k)
        ELSE 0

\* the text between the first "(" and its matching ")", trimmed; Null when the header
\* has no "(" or the first "(" has no matching ")"
ParenthesisedPart(h) ==
    IF ~HasChar(h, "(") THEN Null
    ELSE LET o == Find(h, "(") + 1
         IN  IF MatchingClose(h, o) = 0 THEN Null
             ELSE Trimmed(SubSeq(h, o + 1, MatchingClose(h, o) - 1))

\* C18: extract_date_from_header returns the text between the first "(" of the
\* header and its matching ")", trimmed, and None when the header has no such part;
\* the label is "Week N" when the date is None or empty and "Week N (date)" otherwise.
C18_DateExtraction ==
    labelled # NotRun =>
        /\ labelled.date_str = ParenthesisedPart(col_header)
        /\ labelled.week_label =
              <<"W", "e", "e", "k", " ">> \o IntText(labelled.week)
                 \o (IF labelled.date_str \in {Null, <<>>} THEN <<>>
                     ELSE <<" ", "(">> \o labelled.date_str \o <<")">>)

(***************************************************************************)
(* Two update runs at once against one ledger file: lines 182-206 step by  *)
(* step (the test of line 183, the read of line 184, the write of line 201 *)
(* or 205), nothing holding the file between the steps.                    *)
(***************************************************************************)
Procs == {1, 2}

\* the frame the merge of lines 187-200 starts from: cleaned_df, read at line 184
MergeInput_reread(cleaned_df, file) == file

MergeInput(cleaned_df, file) == cleaned_df

\* the number of runs that have written
Written == Cardinality({q \in DOMAIN proc : proc[q].pc = "done"})

\* line 183: CLEANED_FILE.exists()
CheckExists(p) ==
    /\ proc[p].pc = "start"
    /\ proc' = [proc EXCEPT ![p].pc = IF ledger.exists THEN "read" ELSE "create"]
    /\ UNCHANGED <<cell, classified, student_df, weeks_total, score, ledger, run,
                   headerVars, dateVars>>

\* line 184: cleaned_df = pd.read_excel(CLEANED_FILE)
ReadLedger(p) ==
    /\ proc[p].pc = "read"
    /\ proc' = [proc EXCEPT ![p].pc = "merge", ![p].cleaned_df = ledger]
    /\ UNCHANGED <<cell, classified, student_df, weeks_total, score, ledger, run,
                   headerVars, dateVars>>

\* lines 187-201: the merge of cleaned_df and new_df, written over the file
MergeAndWrite(p) ==
    /\ proc[p].pc = "merge"
    /\ ledger' = AppendAndDedupe(MergeInput(proc[p].cleaned_df, ledger),
                                 FrameOf(proc[p].batch))
    /\ proc' = [proc EXCEPT ![p].pc = "done", ![p].order = Written + 1]
    /\ UNCHANGED <<cell, classified, student_df, weeks_total, score, run,
                   headerVars, dateVars>>

\* line 205: new_df written as the file
CreateLedger(p) ==
    /\ proc[p].pc = "create"
    /\ ledger' = FrameOf(proc[p].batch)
    /\ proc' = [proc EXCEPT ![p].pc = "done", ![p].order = Written + 1]
    /\ UNCHANGED <<cell, classified, student_df, weeks_total, score, run,
                   headerVars, dateVars>>

\* the ledger files the two runs can find: none, or the one of a full extraction
RaceLedgers ==
    {NoFile} \cup {FrameOf(x.batch) : x \in StoreCleanExtracts}

InitRace ==
    /\ ledger \in RaceLedgers
    /\ run = NoRun
    /\ \E b1 \in RaceBatches(RaceWeeks[1]), b2 \in RaceBatches(RaceWeeks[2]) :
          proc = [p \in Procs |->
                     [pc |-> "start", batch |-> IF p = 1 THEN b1 ELSE b2,
                      cleaned_df |-> NoFile, order |-> 0]]
    /\ IdleCell /\ IdleScore /\ IdleHeader /\ IdleDate

Check == \E p \in Procs : CheckExists(p)

Read == \E p \in Procs : ReadLedger(p)

Merge == \E p \in Procs : MergeAndWrite(p)

Create == \E p \in Procs : CreateLedger(p)

NextRace == Check \/ Read \/ Merge \/ Create

SpecRace == InitRace /\ [][NextRace]_vars

\* the ledger file holds the record r
Holds(file, r) == \E j \in 1..Len(file.rows) : file.rows[j] = r

\* C19: the merge is a read, a computation and a write with nothing in between that
\* holds the file, so when the run that writes last had tested and read the ledger
\* before the other run wrote (what it read holds no record of the other run), the
\* ledger after both runs lacks every record of the other run.
C19_LostUpdate ==
    \A p, q \in DOMAIN proc :
        ( /\ p # q
          /\ proc[p].pc = "done" /\ proc[q].pc = "done"
          /\ proc[q].order = 2
          /\ \A k \in 1..Len(proc[p].batch) : ~Holds(proc[q].cleaned_df, proc[p].batch[k]) )
        => \A k \in 1..Len(proc[p].batch) : ~Holds(ledger, proc[p].batch[k])

\* both runs are over and the ledger holds the records of the week-6 run and none of
\* the two records of the week-7 run
C19_Witness ==
    /\ proc # <<>>
    /\ \A p \in DOMAIN proc : proc[p].pc = "done"
    /\ proc[2].order = 2
    /\ proc[2].cleaned_df.exists
    /\ Len(proc[1].batch) = 2
    /\ \A k \in 1..Len(proc[1].batch) : ~Holds(ledger, proc[1].batch[k])
    /\ \A k \in 1..Len(proc[2].batch) : Holds(ledger, proc[2].batch[k])

\* the week number of a label "Week N" or "Week N (date)"
WeekNumberOf(label) ==
    LET d == Len(WEEK) + 2
    IN  TextInt(SubSeq(label, d, DigitsEnd(label, d)))

\* C20: after any sequence of update runs (with or without --date, whatever the
\* header of the week column) and full extractions, the ledger holds for each
\* student at most one record for each week number.
C20_OneRecordPerWeekNumber ==
    \A i, j \in 1..Len(ledger.rows) :
        ( /\ i < j
          /\ ledger.rows[i].Student = ledger.rows[j].Student )
        => WeekNumberOf(ledger.rows[i].Week) # WeekNumberOf(ledger.rows[j].Week)

(***************************************************************************)
(* The simple heuristic of app.py next to the rule set of                  *)
(* update_week_cleaned.py, on every cell of Cells.                         *)
(***************************************************************************)
\* app.attendance_status returning Present for a cell without a marker
app_attendance_status_default_present(value) ==
    IF IsNa(value) THEN "Absent"
    ELSE IF HasChar(value.text, "$") THEN "Excused"
    ELSE IF HasChar(value.text, "%") THEN "Absent"
    ELSE "Present"

\* app.py lines 104-113
app_attendance_status(value) ==
    IF IsNa(value) THEN "Absent"
    ELSE IF HasChar(value.text, "$") THEN "Excused"
    ELSE IF HasChar(value.text, "%") THEN "Absent"
    ELSE IF HasChar(value.text, "*") THEN "Present"
    ELSE IF HasChar(value.text, "#") THEN "Present"
    ELSE "Absent"

\* app.py lines 121-124: value = str(row[week]) goes to the simple heuristic
CellAppPath ==
    /\ classified = NotRun
    /\ classified' =
          [path |-> "app", text |-> StrOf(cell).text,
           Participation |-> CountChar(StrOf(cell).text, "#"),
           Attendance |-> app_attendance_status(StrOf(cell))]
    /\ UNCHANGED <<cell, student_df, weeks_total, score, ledger, run,
                   headerVars, dateVars, raceVars>>

NextHeuristics == CellAppPath

SpecHeuristics == InitCell /\ [][NextHeuristics]_vars

\* the two heuristics have classified the text of the cell
Compared == classified.path = "app"

\* what attendance_status of update_week_cleaned.py returns for the same text
CanonicalStatus == attendance_status(Str(classified.text))

\* C21 as stated: on a cell that carries no marker at all the two heuristics return
\* different statuses.
C21_Original ==
    (Compared /\ NoMarker(classified.text)) =>
        classified.Attendance # CanonicalStatus

\* C21, amended: on a cell that carries no marker the two heuristics agree, both
\* return Absent; they differ on a cell without '$' and without the word EXCUSED
\* that carries '%' next to a present marker ('*', '#', a check mark), where the
\* simple one returns Absent and the rule set Present, and on a cell without '$', '%', '*' and '#' that the rule
\* set does not classify Absent (a check mark, 'P', 'E', the words), where the simple
\* one returns Absent.
C21_HeuristicsDisagree ==
    Compared =>
        LET t == classified.text
            has(c) == \E i \in 1..Len(t) : t[i] = c
        IN  /\ NoMarker(t) =>
                  classified.Attendance = "Absent" /\ CanonicalStatus = "Absent"
            /\ ( /\ ~has("$") /\ has("%")
                 /\ (has("*") \/ has("#") \/ has("U+2713") \/ has("U+2714"))
                 /\ ~Contains(Upper(t), EXCUSED) )
               => classified.Attendance = "Absent" /\ CanonicalStatus = "Present"
            /\ ( /\ ~has("$") /\ ~has("%") /\ ~has("*") /\ ~has("#")
                 /\ CanonicalStatus # "Absent" )
               => classified.Attendance = "Absent"

\* the cell "*%": Absent for the simple heuristic, Present for the rule set
C21_Witness ==
    /\ Compared
    /\ classified.text = <<"*", "%">>
    /\ classified.Attendance = "Absent"
    /\ CanonicalStatus = "Present"

====
